---------------------------- MODULE Spec2Model ----------------------------
(***************************************************************************)
(* Farm monitoring dashboard (streamlit_farm_dashboard4.py).               *)
(*                                                                         *)
(* The script is re-executed top to bottom on every interaction.  One run  *)
(* loads the observation table and the planting centroids, aggregates the  *)
(* observations per Crop_id, left-joins the centroids with the aggregate,  *)
(* applies the three sidebar filters and renders one of the two pages.     *)
(*                                                                         *)
(* Tables are sequences of records (row order matters to 'last', to        *)
(* unique() and to the first-match lookup of the progress page).  A float  *)
(* is the record [num, den]; den = 0 is NaN.  A missing string is Null, a  *)
(* missing timestamp is NaT.                                               *)
(***************************************************************************)
EXTENDS Integers, Sequences, FiniteSets, TLC

VARIABLES
    csv_rows,          \* monitoring_data.csv as read_csv returns it
    geo_rows,          \* planting_centroids.geojson as read_file returns it
    monitoring_df,     \* line 20/21: the retained, typed observation rows
    agg_monitoring,    \* line 36-42
    merged_gdf,        \* line 47-64
    menu_choice,       \* line 69
    selected_crop,     \* line 74
    selected_variety,  \* line 84
    selected_stage,    \* line 90
    after_class,       \* filtered_gdf after line 77
    after_variety,     \* filtered_gdf after line 86
    filtered_gdf,      \* filtered_gdf after line 92
    center_branch,     \* which branch of line 100-103 set farm_center
    farm_center,       \* line 101/103
    plot_ids,          \* line 167
    selected_plot,     \* line 168
    crop_id,           \* line 171
    progress_df,       \* line 172
    progress_agg,      \* line 176-179
    outcome            \* what the page rendered: map, chart, warning or IndexError

vars == <<csv_rows, geo_rows, monitoring_df, agg_monitoring, merged_gdf,
          menu_choice, selected_crop, selected_variety, selected_stage,
          after_class, after_variety, filtered_gdf, center_branch, farm_center,
          plot_ids, selected_plot, crop_id, progress_df, progress_agg, outcome>>

----------------------------------------------------------------------------
(* Values *)

\* a missing value of an object (string) column
Null == "<NaN>"

\* the missing timestamp that errors='coerce' produces; real dates are yyyymmdd
NaT == 0

\* selectbox returns None when it is given no options
None == "<None>"

NaN == [num |-> 0, den |-> 0]

Float(n) == [num |-> n, den |-> 1]

IsNaN(f) == f.den = 0

\* numeric equality of two floats (NaN equals nothing, itself included)
FloatEq(f, g) == f.den # 0 /\ g.den # 0 /\ f.num * g.den = g.num * f.den

Range(s) == {s[i] : i \in 1..Len(s)}

\* every string the model handles, in the order Python compares strings
StrOrder ==
    <<" 1", "1", "2", "99", "All", "Beans", "Fair", "Good", "Maize", "N/A",
      "P1", "P2", "Poor", "flower", "v1", "v2", "veg">>

\* sorted(S) for a set of strings
SortStrings(S) == SelectSeq(StrOrder, LAMBDA x : x \in S)

RECURSIVE SortInts(_)
\* sorted(S) for a set of integers
SortInts(S) ==
    IF S = {} THEN <<>>
    ELSE LET m == CHOOSE x \in S : \A y \in S : x <= y
         IN  <<m>> \o SortInts(S \ {m})

RECURSIVE SumNum(_)
SumNum(fs) == IF fs = <<>> THEN 0 ELSE Head(fs).num + SumNum(Tail(fs))

\* Series.mean(): the mean of the non-NaN values, NaN when there is none
Mean(fs) ==
    LET ok == SelectSeq(fs, LAMBDA f : ~IsNaN(f))
    IN  IF ok = <<>> THEN NaN ELSE [num |-> SumNum(ok), den |-> Len(ok)]

RECURSIVE Unique(_)
\* Series.unique(): the distinct values in order of first appearance
Unique(s) ==
    IF s = <<>> THEN <<>>
    ELSE LET front == Unique(SubSeq(s, 1, Len(s) - 1))
             x == s[Len(s)]
         IN  IF x \in Range(front) THEN front ELSE Append(front, x)

\* Series.dropna() of an object column
DropNull(s) == SelectSeq(s, LAMBDA x : x # Null)

Column(df, c) == [i \in 1..Len(df) |-> df[i][c]]

----------------------------------------------------------------------------
(* 1. Load Monitoring CSV (lines 14-21) *)

\* str.strip() on the identifier columns
StrStrip(s) == IF s = " 1" THEN "1" ELSE s

\* pd.to_datetime(dayfirst=True, errors='coerce') on the cells of the model
ToDatetime(s) ==
    CASE s = "05/01/2024" -> 20240105
      [] s = "10/01/2024" -> 20240110
      [] OTHER -> NaT

\* pd.to_numeric(errors='coerce') on the cells of the model
ToNumeric(s) ==
    CASE s = "10" -> Float(10)
      [] s = "20" -> Float(20)
      [] OTHER -> NaN

ParseRow(r) ==
    [Crop_id |-> StrStrip(r.Crop_id),
     date_observed |-> ToDatetime(r.date_observed),
     height_cm |-> ToNumeric(r.height_cm),
     stage |-> r.stage,
     crop_health |-> r.crop_health,
     fid |-> r.fid]

\* mutation: the rows with an unparsable date are kept
LoadMonitoringKeepNaT(csv) == [i \in 1..Len(csv) |-> ParseRow(csv[i])]

LoadMonitoring(csv) ==
    SelectSeq([i \in 1..Len(csv) |-> ParseRow(csv[i])],
              LAMBDA r : r.date_observed # NaT)

----------------------------------------------------------------------------
(* 2. Load Planting Centroids (lines 26-31) *)

LoadCentroids(geo) ==
    [i \in 1..Len(geo) |-> [geo[i] EXCEPT !.id = StrStrip(geo[i].id)]]

----------------------------------------------------------------------------
(* 3. Aggregate Monitoring Data (lines 36-42) *)

\* mutation: one group per row, keys not deduplicated
GroupKeysPerRow(df) == Column(df, "Crop_id")

\* the groups of groupby('Crop_id'): sorted keys
GroupKeys(df) == SortStrings(Range(Column(df, "Crop_id")))

Group(df, k) == SelectSeq(df, LAMBDA r : r.Crop_id = k)

\* mutation: the value of the last row, null or not
AggLastRow(s) == IF s = <<>> THEN Null ELSE s[Len(s)]

\* GroupBy 'last': the last non-null value of the column, null when all are null
AggLast(s) ==
    LET ok == DropNull(s)
    IN  IF ok = <<>> THEN Null ELSE ok[Len(ok)]

\* GroupBy 'max' of a datetime column: NaT is skipped
AggMax(s) ==
    LET ok == {x \in Range(s) : x # NaT}
    IN  IF ok = {} THEN NaT ELSE CHOOSE x \in ok : \A y \in ok : y <= x

\* GroupBy 'count': the number of non-null values of the column
AggCount(s) == Len(DropNull(s))

AggRecord(g, k) ==
    [Crop_id |-> k,
     avg_height |-> Mean(Column(g, "height_cm")),
     last_stage |-> AggLast(Column(g, "stage")),
     last_crop_health |-> AggLast(Column(g, "crop_health")),
     last_observed |-> AggMax(Column(g, "date_observed")),
     observations_count |-> AggCount(Column(g, "fid"))]

AggMonitoring(df) ==
    LET keys == GroupKeys(df)
    IN  [i \in 1..Len(keys) |-> AggRecord(Group(df, keys[i]), keys[i])]

----------------------------------------------------------------------------
(* 4. Merge with Planting Centroids (lines 47-64) *)

\* the columns a left row gets from the aggregate row a, the count cast to float
\* as a join with missing rows casts it
Joined(l, a) ==
    [id |-> l.id, Plot_ID |-> l.Row_ID, Crop_Class |-> l.Crop_Class,
     Crop_Varie |-> l.Crop_Varie, geometry |-> l.geometry,
     Crop_id |-> a.Crop_id, avg_height |-> a.avg_height,
     last_stage |-> a.last_stage, last_crop_health |-> a.last_crop_health,
     last_observed |-> a.last_observed,
     observations_count |-> Float(a.observations_count)]

\* the columns of a left row no aggregate row matches
Unjoined(l) ==
    [id |-> l.id, Plot_ID |-> l.Row_ID, Crop_Class |-> l.Crop_Class,
     Crop_Varie |-> l.Crop_Varie, geometry |-> l.geometry,
     Crop_id |-> Null, avg_height |-> NaN,
     last_stage |-> Null, last_crop_health |-> Null,
     last_observed |-> NaT, observations_count |-> NaN]

\* the rows of merge(how='left') for one left row
JoinRow(l, agg) ==
    LET hits == SelectSeq(agg, LAMBDA a : a.Crop_id = l.id)
    IN  IF hits = <<>> THEN <<Unjoined(l)>>
        ELSE [j \in 1..Len(hits) |-> Joined(l, hits[j])]

RECURSIVE LeftMerge(_, _)
\* planting_centroids.merge(agg_monitoring, left_on='id', right_on='Crop_id', how='left')
LeftMerge(left, agg) ==
    IF left = <<>> THEN <<>>
    ELSE JoinRow(Head(left), agg) \o LeftMerge(Tail(left), agg)

\* mutation: only the string columns are filled
FillNaStringsOnly(r) ==
    [r EXCEPT !.last_stage = IF @ = Null THEN "N/A" ELSE @,
              !.last_crop_health = IF @ = Null THEN "N/A" ELSE @]

\* merged_gdf.fillna({...}) on one row
FillNa(r) ==
    [r EXCEPT !.avg_height = IF IsNaN(@) THEN Float(0) ELSE @,
              !.last_stage = IF @ = Null THEN "N/A" ELSE @,
              !.last_crop_health = IF @ = Null THEN "N/A" ELSE @,
              !.observations_count = IF IsNaN(@) THEN Float(0) ELSE @]

\* merged_gdf['centroid'] = merged_gdf.geometry.centroid (the geometries are points)
WithCentroid(r) ==
    [id |-> r.id, Plot_ID |-> r.Plot_ID, Crop_Class |-> r.Crop_Class,
     Crop_Varie |-> r.Crop_Varie, geometry |-> r.geometry,
     Crop_id |-> r.Crop_id, avg_height |-> r.avg_height,
     last_stage |-> r.last_stage, last_crop_health |-> r.last_crop_health,
     last_observed |-> r.last_observed,
     observations_count |-> r.observations_count,
     centroid |-> r.geometry]

MergedGdf(centroids, agg) ==
    LET m == LeftMerge(centroids, agg)
    IN  [i \in 1..Len(m) |-> WithCentroid(FillNa(m[i]))]

----------------------------------------------------------------------------
(* 5. Sidebar: Menu & Filters (lines 69-92) *)

Menu == <<"Farm Monitoring", "Check Progress">>

CropClassOptions(merged) ==
    <<"All">> \o Unique(DropNull(Column(merged, "Crop_Class")))

\* mutation: the class filter is applied whatever is selected
FilterClassAlways(df, sel) == SelectSeq(df, LAMBDA r : r.Crop_Class = sel)

FilterClass(df, sel) ==
    IF sel # "All" THEN SelectSeq(df, LAMBDA r : r.Crop_Class = sel) ELSE df

\* mutation: the varieties are offered from the whole merged set
CropVarietyOptionsUnscoped(merged, selCrop) ==
    <<"All">> \o Unique(DropNull(Column(merged, "Crop_Varie")))

CropVarietyOptions(merged, selCrop) ==
    <<"All">> \o
    (IF selCrop = "All"
     THEN Unique(DropNull(Column(merged, "Crop_Varie")))
     ELSE Unique(DropNull(Column(
              SelectSeq(merged, LAMBDA r : r.Crop_Class = selCrop), "Crop_Varie"))))

FilterVariety(df, sel) ==
    IF sel # "All" THEN SelectSeq(df, LAMBDA r : r.Crop_Varie = sel) ELSE df

StageOptions(df) == <<"All">> \o Unique(DropNull(Column(df, "last_stage")))

FilterStage(df, sel) ==
    IF sel # "All" THEN SelectSeq(df, LAMBDA r : r.last_stage = sel) ELSE df

----------------------------------------------------------------------------
(* 6. Farm Monitoring Page (lines 97-155) *)

FarmCenter(df) ==
    IF df # <<>>
    THEN <<Mean([i \in 1..Len(df) |-> Float(df[i].centroid.y)]),
           Mean([i \in 1..Len(df) |-> Float(df[i].centroid.x)])>>
    ELSE <<Float(0), Float(0)>>

CenterBranch(df) == IF df # <<>> THEN "mean" ELSE "fallback"

----------------------------------------------------------------------------
(* 7. Check Progress Page (lines 163-202) *)

\* mutation: the page reads the filtered set
PlotSourceFiltered(merged, filtered) == filtered

\* the table line 167 and line 171 read: merged_gdf, not filtered_gdf
PlotSource(merged, filtered) == merged

PlotIds(df) == Unique(DropNull(Column(df, "Plot_ID")))

\* merged_gdf.loc[merged_gdf['Plot ID'] == selected_plot, 'id'].values
IdsOfPlot(merged, plot) ==
    Column(SelectSeq(merged, LAMBDA r : r.Plot_ID = plot), "id")

\* mutation: the last matching row gives the id
ResolveCropIdLast(ids) == ids[Len(ids)]

\* .values[0]
ResolveCropId(ids) == ids[1]

ProgressDf(df, cid) == SelectSeq(df, LAMBDA r : r.Crop_id = cid)

Occurrences(s, v) == Cardinality({i \in 1..Len(s) : s[i] = v})

\* mutation: the most frequent values in order of first appearance
SeriesModeFirstSeen(s) ==
    LET ok == DropNull(s)
        top == {v \in Range(ok) :
                   \A w \in Range(ok) : Occurrences(ok, w) <= Occurrences(ok, v)}
    IN  SelectSeq(Unique(ok), LAMBDA v : v \in top)

\* Series.mode(): the most frequent non-null values, sorted
SeriesMode(s) ==
    LET ok == DropNull(s)
        top == {v \in Range(ok) :
                   \A w \in Range(ok) : Occurrences(ok, w) <= Occurrences(ok, v)}
    IN  SortStrings(top)

\* lambda x: x.mode()[0] if not x.mode().empty else 'N/A'
ModalHealth(s) == IF SeriesMode(s) # <<>> THEN SeriesMode(s)[1] ELSE "N/A"

ProgressAgg(pdf) ==
    LET dates == SortInts(Range(Column(pdf, "date_observed")))
    IN  [i \in 1..Len(dates) |->
           LET g == SelectSeq(pdf, LAMBDA r : r.date_observed = dates[i])
           IN  [date_observed |-> dates[i],
                avg_height |-> Mean(Column(g, "height_cm")),
                avg_crop_health |-> ModalHealth(Column(g, "crop_health"))]]

\* not progress_df.empty
HasHistory(pdf) == pdf # <<>>

----------------------------------------------------------------------------
(* One execution of the script *)

\* lines 14-64: the tables every run rebuilds from the two files
Tables(csv, geo) ==
    LET mdf == LoadMonitoring(csv)
        agg == AggMonitoring(mdf)
    IN  [monitoring_df |-> mdf,
         agg_monitoring |-> agg,
         merged_gdf |-> MergedGdf(LoadCentroids(geo), agg)]

\* lines 71-92: filtered_gdf after each of the three levels
Cascade(merged, selCrop, selVariety, selStage) ==
    LET f1 == FilterClass(merged, selCrop)
        f2 == FilterVariety(f1, selVariety)
    IN  [after_class |-> f1, after_variety |-> f2,
         filtered_gdf |-> FilterStage(f2, selStage)]

\* lines 163-202 for the plot the selectbox returned
Progress(mdf, source, plot) ==
    LET ids == IdsOfPlot(source, plot)
    IN  IF ids = <<>>
        THEN [crop_id |-> None, progress_df |-> <<>>, progress_agg |-> <<>>,
              outcome |-> "IndexError"]
        ELSE LET cid == ResolveCropId(ids)
                 pdf == ProgressDf(mdf, cid)
             IN  IF HasHistory(pdf)
                 THEN [crop_id |-> cid, progress_df |-> pdf,
                       progress_agg |-> ProgressAgg(pdf), outcome |-> "chart"]
                 ELSE [crop_id |-> cid, progress_df |-> pdf,
                       progress_agg |-> <<>>, outcome |-> "warning"]

\* the plots line 168 offers; an empty list makes selectbox return None
PlotOptions(source) ==
    IF PlotIds(source) = <<>> THEN {None} ELSE Range(PlotIds(source))

\* the state a run with menu "Farm Monitoring" leaves
FarmMonitoringState(csv, geo, selCrop, selVariety, selStage) ==
    LET t == Tables(csv, geo)
        c == Cascade(t.merged_gdf, selCrop, selVariety, selStage)
    IN  [monitoring_df |-> t.monitoring_df, agg_monitoring |-> t.agg_monitoring,
         merged_gdf |-> t.merged_gdf, menu_choice |-> Menu[1],
         selected_crop |-> selCrop, selected_variety |-> selVariety,
         selected_stage |-> selStage,
         after_class |-> c.after_class, after_variety |-> c.after_variety,
         filtered_gdf |-> c.filtered_gdf,
         center_branch |-> CenterBranch(c.filtered_gdf),
         farm_center |-> FarmCenter(c.filtered_gdf),
         plot_ids |-> <<>>, selected_plot |-> None, crop_id |-> None,
         progress_df |-> <<>>, progress_agg |-> <<>>, outcome |-> "map"]

\* the state a run with menu "Check Progress" leaves
CheckProgressState(csv, geo, selCrop, selVariety, selStage, plot) ==
    LET t == Tables(csv, geo)
        c == Cascade(t.merged_gdf, selCrop, selVariety, selStage)
        source == PlotSource(t.merged_gdf, c.filtered_gdf)
        p == Progress(t.monitoring_df, source, plot)
    IN  [monitoring_df |-> t.monitoring_df, agg_monitoring |-> t.agg_monitoring,
         merged_gdf |-> t.merged_gdf, menu_choice |-> Menu[2],
         selected_crop |-> selCrop, selected_variety |-> selVariety,
         selected_stage |-> selStage,
         after_class |-> c.after_class, after_variety |-> c.after_variety,
         filtered_gdf |-> c.filtered_gdf,
         center_branch |-> "none", farm_center |-> <<>>,
         plot_ids |-> PlotIds(source), selected_plot |-> plot,
         crop_id |-> p.crop_id, progress_df |-> p.progress_df,
         progress_agg |-> p.progress_agg, outcome |-> p.outcome]

\* the variables hold what a run left
Starts(r) ==
    /\ monitoring_df = r.monitoring_df
    /\ agg_monitoring = r.agg_monitoring
    /\ merged_gdf = r.merged_gdf
    /\ menu_choice = r.menu_choice
    /\ selected_crop = r.selected_crop
    /\ selected_variety = r.selected_variety
    /\ selected_stage = r.selected_stage
    /\ after_class = r.after_class
    /\ after_variety = r.after_variety
    /\ filtered_gdf = r.filtered_gdf
    /\ center_branch = r.center_branch
    /\ farm_center = r.farm_center
    /\ plot_ids = r.plot_ids
    /\ selected_plot = r.selected_plot
    /\ crop_id = r.crop_id
    /\ progress_df = r.progress_df
    /\ progress_agg = r.progress_agg
    /\ outcome = r.outcome

\* a run replaces every table and every widget value
Leaves(r) ==
    /\ monitoring_df' = r.monitoring_df
    /\ agg_monitoring' = r.agg_monitoring
    /\ merged_gdf' = r.merged_gdf
    /\ menu_choice' = r.menu_choice
    /\ selected_crop' = r.selected_crop
    /\ selected_variety' = r.selected_variety
    /\ selected_stage' = r.selected_stage
    /\ after_class' = r.after_class
    /\ after_variety' = r.after_variety
    /\ filtered_gdf' = r.filtered_gdf
    /\ center_branch' = r.center_branch
    /\ farm_center' = r.farm_center
    /\ plot_ids' = r.plot_ids
    /\ selected_plot' = r.selected_plot
    /\ crop_id' = r.crop_id
    /\ progress_df' = r.progress_df
    /\ progress_agg' = r.progress_agg
    /\ outcome' = r.outcome

\* the selections the three selectboxes of one run can return (lines 74, 84, 90)
Selections(merged) ==
    {sel \in Range(CropClassOptions(merged))
             \X Range(CropVarietyOptions(merged, "All"))
             \X Range(StageOptions(merged)) :
        /\ sel[2] \in Range(CropVarietyOptions(merged, sel[1]))
        /\ sel[3] \in Range(StageOptions(
               FilterVariety(FilterClass(merged, sel[1]), sel[2])))}

\* a rerun with the radio on "Farm Monitoring"
FarmMonitoring ==
    /\ \E sel \in Selections(Tables(csv_rows, geo_rows).merged_gdf) :
          Leaves(FarmMonitoringState(csv_rows, geo_rows, sel[1], sel[2], sel[3]))
    /\ UNCHANGED <<csv_rows, geo_rows>>

\* a rerun with the radio on "Check Progress"
CheckProgress ==
    /\ LET merged == Tables(csv_rows, geo_rows).merged_gdf
       IN  \E sel \in Selections(merged) :
             \E plot \in PlotOptions(PlotSource(merged,
                             Cascade(merged, sel[1], sel[2], sel[3]).filtered_gdf)) :
                Leaves(CheckProgressState(csv_rows, geo_rows,
                                          sel[1], sel[2], sel[3], plot))
    /\ UNCHANGED <<csv_rows, geo_rows>>

Next == FarmMonitoring \/ CheckProgress

\* the first run: every widget at its first option
FirstRun == Starts(FarmMonitoringState(csv_rows, geo_rows, "All", "All", "All"))

----------------------------------------------------------------------------
(* The files on disk.  Each specification draws the two files from a family  *)
(* that varies the columns its properties are about.                         *)

SeqsUpTo(S, n) == UNION {[1..k -> S] : k \in 0..n}

MaxAggRows == 2
MaxMergeRows == 2
MaxMergeCentroids == 2
MaxFilterCentroids == 2
MaxProgressCentroids == 2
MaxModeRows == 3

Centroid(id, plot, class, variety, x, y) ==
    [id |-> id, Row_ID |-> plot, Crop_Class |-> class, Crop_Varie |-> variety,
     geometry |-> [x |-> x, y |-> y]]

\* height_cm, stage, crop_health and fid cells that occur together
Payloads ==
    {<<"10", "veg", "Good", "f1">>, <<"20", "flower", "Fair", "f2">>,
     <<"tall", Null, "Poor", "f3">>, <<"20", "veg", Null, Null>>}

Observation(crop, date, p) ==
    [Crop_id |-> crop, date_observed |-> date, height_cm |-> p[1],
     stage |-> p[2], crop_health |-> p[3], fid |-> p[4]]

RawDates == {"05/01/2024", "10/01/2024", "n/a"}

\* aggregation: every column of the observations varies
AggCsv ==
    SeqsUpTo({Observation(c, d, p) : c \in {"1", "2"}, d \in RawDates, p \in Payloads},
             MaxAggRows)

AggGeo == {<<Centroid("1", "P1", Null, Null, 30, 10)>>}

InitAgg == csv_rows \in AggCsv /\ geo_rows \in AggGeo /\ FirstRun

Spec == InitAgg /\ [][Next]_vars

\* merge: the identifiers on both sides vary, padded or not
MergeCsv ==
    SeqsUpTo({Observation(c, d, <<"10", "veg", "Good", "f1">>) :
                 c \in {"1", " 1", "2"}, d \in {"05/01/2024", "n/a"}},
             MaxMergeRows)

MergeGeo ==
    SeqsUpTo({Centroid(id, "P1", Null, Null, 30, 10) : id \in {"1", " 1", "2", "99"}},
             MaxMergeCentroids)

InitMerge == csv_rows \in MergeCsv /\ geo_rows \in MergeGeo /\ FirstRun

SpecMerge == InitMerge /\ [][Next]_vars

\* filters: the class and the variety of the centroids vary, null included
FilterCsv ==
    {<<>>,
     <<Observation("1", "05/01/2024", <<"10", "veg", "Good", "f1">>),
       Observation("2", "10/01/2024", <<"20", "flower", "Fair", "f2">>)>>}

\* id, class and variety of a centroid: every class with every variety it can
\* share with another class, and the null of each
FilterAttrs ==
    {<<"1", "Maize", "v1">>, <<"2", "Maize", "v2">>, <<"1", "Beans", "v1">>,
     <<"99", "Beans", "v2">>, <<"2", "Beans", Null>>, <<"1", Null, "v2">>,
     <<"99", Null, Null>>}

FilterGeo ==
    SeqsUpTo({Centroid(a[1], "P1", a[2], a[3], 30, 10) : a \in FilterAttrs},
             MaxFilterCentroids)

InitFilter == csv_rows \in FilterCsv /\ geo_rows \in FilterGeo /\ FirstRun

SpecFilter == InitFilter /\ [][Next]_vars

\* progress page: the plot ids of the centroids vary, null and repeated included
ProgressCsv ==
    {<<>>,
     <<Observation("1", "05/01/2024", <<"10", "veg", "Good", "f1">>)>>,
     <<Observation("1", "n/a", <<"10", "veg", "Good", "f1">>)>>,
     <<Observation("2", "10/01/2024", <<"20", "flower", "Fair", "f2">>),
       Observation("1", "n/a", <<"10", "veg", "Good", "f1">>),
       Observation("2", "05/01/2024", <<"10", "veg", "Good", "f1">>)>>}

ProgressGeo ==
    SeqsUpTo({Centroid(a[1], plot, a[2], Null, 30, 10) :
                 a \in {<<"1", "Maize">>, <<"2", "Beans">>, <<"99", "Maize">>},
                 plot \in {Null, "P1", "P2"}},
             MaxProgressCentroids)

InitProgress == csv_rows \in ProgressCsv /\ geo_rows \in ProgressGeo /\ FirstRun

SpecProgress == InitProgress /\ [][Next]_vars

\* modal health: the health labels of one crop vary over two dates
ModeCsv ==
    SeqsUpTo({Observation("1", d, <<"10", "veg", h, "f1">>) :
                 d \in {"05/01/2024", "10/01/2024"},
                 h \in {Null, "Fair", "Good", "Poor"}},
             MaxModeRows)

ModeGeo == {<<Centroid("1", "P1", "Maize", "v1", 30, 10)>>}

InitMode == csv_rows \in ModeCsv /\ geo_rows \in ModeGeo /\ FirstRun

SpecMode == InitMode /\ [][Next]_vars

----------------------------------------------------------------------------
(* Properties.  They are stated over the two files and the variables a run  *)
(* leaves, not over the operators that compute those variables.             *)

\* the positions of csv_rows whose date parses
Parsable == {i \in DOMAIN csv_rows : ToDatetime(csv_rows[i].date_observed) # NaT}

\* the retained rows of crop c, as positions of csv_rows
Retained(c) == {i \in Parsable : StrStrip(csv_rows[i].Crop_id) = c}

\* every crop identifier of the observation file
CsvCrops == {StrStrip(csv_rows[i].Crop_id) : i \in DOMAIN csv_rows}

\* the aggregate records of crop c, as positions of agg_monitoring
Records(c) == {j \in DOMAIN agg_monitoring : agg_monitoring[j].Crop_id = c}

MaxOf(S) == CHOOSE x \in S : \A y \in S : y <= x

\* csv_rows without the rows whose date does not parse
ParsableRows == SelectSeq(csv_rows, LAMBDA r : ToDatetime(r.date_observed) # NaT)

OnProgressPage == menu_choice = Menu[2]

\* C1: a row whose date_observed does not parse contributes to no aggregate:
\* no retained row has a missing date, the per-crop aggregate is the aggregate of
\* the file without those rows, a crop whose rows are all unparsable has no
\* record, and the per-date aggregate of the progress page has no missing date
\* and as many dates as the selected crop's parsable rows have.
C1_UnparsableRowsExcluded ==
    /\ \A i \in DOMAIN monitoring_df : monitoring_df[i].date_observed # NaT
    /\ Len(monitoring_df) = Cardinality(Parsable)
    /\ agg_monitoring = AggMonitoring(LoadMonitoring(ParsableRows))
    /\ \A c \in CsvCrops : Retained(c) = {} => Records(c) = {}
    /\ \A j \in DOMAIN agg_monitoring :
          /\ agg_monitoring[j].observations_count
                <= Cardinality(Retained(agg_monitoring[j].Crop_id))
          /\ agg_monitoring[j].last_observed
                \in {ToDatetime(csv_rows[i].date_observed) :
                        i \in Retained(agg_monitoring[j].Crop_id)}
    /\ {progress_agg[k].date_observed : k \in DOMAIN progress_agg}
          \subseteq {ToDatetime(csv_rows[i].date_observed) : i \in Parsable}

\* C1 witness: a crop with a parsable and an unparsable row, charted
C1_Witness ==
    /\ OnProgressPage /\ outcome = "chart"
    /\ \E i \in DOMAIN csv_rows :
          /\ i \notin Parsable
          /\ StrStrip(csv_rows[i].Crop_id) = crop_id
          /\ csv_rows[i].fid # Null /\ csv_rows[i].stage # Null

\* C2: the merged set holds each centroid row exactly once, in order
C2_LeftJoinCardinality ==
    /\ Len(merged_gdf) = Len(geo_rows)
    /\ \A i \in DOMAIN merged_gdf :
          /\ merged_gdf[i].id = StrStrip(geo_rows[i].id)
          /\ merged_gdf[i].Plot_ID = geo_rows[i].Row_ID
          /\ merged_gdf[i].geometry = geo_rows[i].geometry

\* C2 witness: two centroids share an id that two retained rows carry
C2_Witness ==
    /\ Len(geo_rows) = 2
    /\ StrStrip(geo_rows[1].id) = StrStrip(geo_rows[2].id)
    /\ Cardinality(Retained(StrStrip(geo_rows[1].id))) = 2

\* C2 also covers the centroid no observation matches, beside a matched one
C2_WitnessUnmatched ==
    /\ Len(geo_rows) = 2
    /\ Retained(StrStrip(geo_rows[1].id)) = {}
    /\ Retained(StrStrip(geo_rows[2].id)) # {}

\* C3: a merged row whose id is the crop of no retained row has the defaults
C3_UnmatchedDefaults ==
    \A i \in DOMAIN merged_gdf :
       Retained(merged_gdf[i].id) = {} =>
          /\ merged_gdf[i].avg_height = Float(0)
          /\ merged_gdf[i].last_stage = "N/A"
          /\ merged_gdf[i].last_crop_health = "N/A"
          /\ merged_gdf[i].observations_count = Float(0)

\* C3 witness: an unmatched centroid whose crop has only unparsable rows, beside
\* a matched one
C3_Witness ==
    \E i, k \in DOMAIN merged_gdf :
       /\ Retained(merged_gdf[i].id) = {}
       /\ merged_gdf[i].id \in CsvCrops
       /\ Retained(merged_gdf[k].id) # {}

\* C4: "All" at a level leaves the rows entering that level untouched
C4_AllIsIdentity ==
    /\ selected_crop = "All" => after_class = merged_gdf
    /\ selected_variety = "All" => after_variety = after_class
    /\ selected_stage = "All" => filtered_gdf = after_variety
    /\ (selected_crop = "All" /\ selected_variety = "All" /\ selected_stage = "All")
          => filtered_gdf = merged_gdf

\* C4 witness: "All" classes with a variety chosen, a null class among the rows
C4_Witness ==
    /\ selected_crop = "All" /\ selected_variety # "All" /\ selected_stage = "All"
    /\ \E i \in DOMAIN filtered_gdf : filtered_gdf[i].Crop_Class = Null
    /\ Len(filtered_gdf) < Len(merged_gdf)

\* the first centroid row with plot id p, as a position of geo_rows
FirstOfPlot(p) ==
    CHOOSE i \in DOMAIN geo_rows :
       /\ geo_rows[i].Row_ID = p
       /\ \A k \in 1..(i - 1) : geo_rows[k].Row_ID # p

\* C5: a selectable plot resolves to the id of the first row with that plot id;
\* the page warns iff no retained row has that crop, else it charts
C5_WarningIffNoHistory ==
    (OnProgressPage /\ selected_plot # None) =>
       /\ \E i \in DOMAIN geo_rows : geo_rows[i].Row_ID = selected_plot
       /\ crop_id = StrStrip(geo_rows[FirstOfPlot(selected_plot)].id)
       /\ outcome \in {"warning", "chart"}
       /\ outcome = "warning" <=> Retained(crop_id) = {}
       /\ outcome = "chart" <=> progress_agg # <<>>

\* C5 witness: a plot id two centroids carry, the first without history and the
\* second with
C5_Witness ==
    /\ OnProgressPage /\ selected_plot # None /\ outcome = "warning"
    /\ Len(geo_rows) = 2
    /\ geo_rows[1].Row_ID = selected_plot /\ geo_rows[2].Row_ID = selected_plot
    /\ Retained(StrStrip(geo_rows[2].id)) # {}

\* the rows of crop c that have a fid, a stage, a health label, a height
WithFid(c) == {i \in Retained(c) : csv_rows[i].fid # Null}

\* C6 as stated: one record per crop with retained rows, its count the number of
\* those rows
C6_CountIsRowCount ==
    \A c \in CsvCrops :
       /\ Retained(c) = {} => Records(c) = {}
       /\ Retained(c) # {} =>
             /\ Cardinality(Records(c)) = 1
             /\ \A j \in Records(c) :
                   agg_monitoring[j].observations_count = Cardinality(Retained(c))

\* what the code computes: the number of retained rows that have a fid
C6_CountIsFidCount ==
    \A c \in CsvCrops :
       /\ Retained(c) = {} => Records(c) = {}
       /\ Retained(c) # {} =>
             /\ Cardinality(Records(c)) = 1
             /\ \A j \in Records(c) :
                   agg_monitoring[j].observations_count = Cardinality(WithFid(c))

\* the value of column col in the last retained row of crop c that has one
LastNonNull(c, col) ==
    LET I == {i \in Retained(c) : csv_rows[i][col] # Null}
    IN  IF I = {} THEN Null ELSE csv_rows[MaxOf(I)][col]

\* C7 as stated: both values come from the last retained row of the crop
C7_LastFromLastRow ==
    \A j \in DOMAIN agg_monitoring :
       LET last == MaxOf(Retained(agg_monitoring[j].Crop_id))
       IN  /\ agg_monitoring[j].last_stage = csv_rows[last].stage
           /\ agg_monitoring[j].last_crop_health = csv_rows[last].crop_health

\* C7 amended: each value is the last non-null one of its column in row order,
\* whatever the dates
C7_LastNonNullInRowOrder ==
    \A j \in DOMAIN agg_monitoring :
       /\ agg_monitoring[j].last_stage
             = LastNonNull(agg_monitoring[j].Crop_id, "stage")
       /\ agg_monitoring[j].last_crop_health
             = LastNonNull(agg_monitoring[j].Crop_id, "crop_health")

\* C7 witness: the last row of a crop has the earlier date and no stage, so the
\* stage, the health label and last_observed come from different rows
C7_Witness ==
    \E j \in DOMAIN agg_monitoring :
       LET c == agg_monitoring[j].Crop_id
           last == MaxOf(Retained(c))
       IN  /\ Cardinality(Retained(c)) = 2
           /\ csv_rows[last].stage = Null
           /\ agg_monitoring[j].last_stage # Null
           /\ agg_monitoring[j].last_crop_health = csv_rows[last].crop_health
           /\ ToDatetime(csv_rows[last].date_observed)
                 < agg_monitoring[j].last_observed

\* the retained rows of the selected crop observed on date d
DateRows(d) ==
    {i \in Retained(crop_id) : ToDatetime(csv_rows[i].date_observed) = d}

\* the health labels of date d, the missing ones left out
Labels(d) == {csv_rows[i].crop_health : i \in DateRows(d)} \ {Null}

Freq(d, v) == Cardinality({i \in DateRows(d) : csv_rows[i].crop_health = v})

\* the most frequent labels of date d
Top(d) == {v \in Labels(d) : \A w \in Labels(d) : Freq(d, w) <= Freq(d, v)}

\* the first row of date d that carries label v
FirstSeen(d, v) ==
    CHOOSE i \in DateRows(d) :
       /\ csv_rows[i].crop_health = v
       /\ \A k \in DateRows(d) : csv_rows[k].crop_health = v => i <= k

\* the place of a string in the order of strings
StrRank(v) == CHOOSE k \in DOMAIN StrOrder : StrOrder[k] = v

\* the chart has one point per distinct date of the selected crop's retained rows
OnePointPerDate ==
    /\ {progress_agg[k].date_observed : k \in DOMAIN progress_agg}
          = {ToDatetime(csv_rows[i].date_observed) : i \in Retained(crop_id)}
    /\ \A k, m \in DOMAIN progress_agg :
          progress_agg[k].date_observed = progress_agg[m].date_observed => k = m

\* C8 as stated: the label of a date is a most frequent one, and among several
\* the one that occurs first in row order
C8_ModeTieFirstSeen ==
    outcome = "chart" =>
       /\ OnePointPerDate
       /\ \A k \in DOMAIN progress_agg :
             LET d == progress_agg[k].date_observed
                 l == progress_agg[k].avg_crop_health
             IN  Labels(d) # {} =>
                    /\ l \in Top(d)
                    /\ \A w \in Top(d) : FirstSeen(d, l) <= FirstSeen(d, w)

\* C8 amended: the label of a date is a most frequent non-null one, among several
\* the least in string order, and "N/A" when every label of the date is missing
C8_ModeTieSorted ==
    outcome = "chart" =>
       /\ OnePointPerDate
       /\ \A k \in DOMAIN progress_agg :
             LET d == progress_agg[k].date_observed
                 l == progress_agg[k].avg_crop_health
             IN  /\ Labels(d) = {} => l = "N/A"
                 /\ Labels(d) # {} =>
                       /\ l \in Top(d)
                       /\ \A w \in Top(d) : StrRank(l) <= StrRank(w)

\* C8 witness: two labels tie on a date and the one seen first is not reported
C8_Witness ==
    /\ outcome = "chart"
    /\ \E k \in DOMAIN progress_agg :
          LET d == progress_agg[k].date_observed
              l == progress_agg[k].avg_crop_health
          IN  /\ Cardinality(Top(d)) = 2
              /\ Cardinality(DateRows(d)) = 3
              /\ \E w \in Top(d) : FirstSeen(d, w) < FirstSeen(d, l)

\* C9: between two runs of the progress page the offered plots are the same, and
\* for the same selected plot so are the crop, the per-date aggregate and the
\* outcome, whatever the three filters select in either run
C9_ProgressIgnoresFilters ==
    [][(OnProgressPage /\ OnProgressPage') =>
          /\ plot_ids' = plot_ids
          /\ selected_plot' = selected_plot =>
                /\ crop_id' = crop_id
                /\ progress_df' = progress_df
                /\ progress_agg' = progress_agg
                /\ outcome' = outcome]_vars

\* C9 witness: the filters leave out every row of the plot that is charted
C9_Witness ==
    /\ OnProgressPage /\ outcome = "chart"
    /\ selected_crop # "All"
    /\ filtered_gdf # <<>>
    /\ \A i \in DOMAIN filtered_gdf : filtered_gdf[i].Plot_ID # selected_plot

\* C10: each selection is "All" or an option of its level, the filtered set is
\* empty only when the merged set is, and only then is the fallback center used
C10_FilteredNonEmpty ==
    /\ selected_crop \in {"All"} \cup
          ({merged_gdf[i].Crop_Class : i \in DOMAIN merged_gdf} \ {Null})
    /\ selected_variety \in {"All"} \cup
          ({merged_gdf[i].Crop_Varie : i \in DOMAIN merged_gdf} \ {Null})
    /\ selected_stage \in {"All"} \cup
          {after_variety[i].last_stage : i \in DOMAIN after_variety}
    /\ merged_gdf # <<>> => (after_class # <<>> /\ after_variety # <<>> /\ filtered_gdf # <<>>)
    /\ center_branch = "fallback" => (merged_gdf = <<>> /\ farm_center = <<Float(0), Float(0)>>)
    /\ (menu_choice = Menu[1] /\ merged_gdf # <<>>) => center_branch = "mean"

\* C10 witness: all three levels select a value and rows are filtered away
C10_Witness ==
    /\ menu_choice = Menu[1]
    /\ selected_crop # "All" /\ selected_variety # "All" /\ selected_stage # "All"
    /\ Len(filtered_gdf) < Len(merged_gdf)
    /\ center_branch = "mean"

\* C10 also covers the empty merged set, where the fallback center is used
C10_WitnessFallback == center_branch = "fallback"

=============================================================================
